---- MODULE Spec2Model ----
(***************************************************************************)
(* Model of the CRUD handlers of two resources of the provider:            *)
(*   - the compute instance (resourceYandexComputeInstance{Create,Read,    *)
(*     Update,Delete}) with its stop/update/start choreography, and        *)
(*   - the SWS advanced rate limiter (ARL) profile.                        *)
(* A handler run is a sequence of steps; every mutating API call is an     *)
(* issue step followed by a wait step on the long-running operation.       *)
(* The log records every request, wait, failure, SetId, Partial and Read   *)
(* in the order the handler performs them.                                 *)
(***************************************************************************)
EXTENDS Integers, Sequences, FiniteSets, TLC

VARIABLES
    handler,    \* which handler the framework invoked
    diff,       \* the planned diff / configuration the handler reads (d.Get, d.HasChange)
    d,          \* mutable part of schema.ResourceData: [id, partial]
    remote,     \* the remote object as the API holds it
    instance,   \* the snapshot Update read with Get at its start
    loc,        \* Update's local variables of the network_interface section
    queue,      \* requests of the loop being executed, still to be issued
    stack,      \* continuation labels: callers to return to
    pc,         \* position in the handler
    ret,        \* position to resume at after op.Wait succeeded
    inflight,   \* operations issued and not yet waited to completion
    log,        \* history of the run
    result,     \* what the handler returned: "none" while running
    validated,  \* outcome of the schema validation of the configuration
    fqdn,       \* the configured hostname and the FQDN the API reports
    hostname    \* hostname attribute set by Read from the FQDN

vars == << handler, diff, d, remote, instance, loc, queue, stack, pc, ret,
           inflight, log, result, validated, fqdn, hostname >>

(***************************************************************************)
(* Bounds of the model.                                                    *)
(***************************************************************************)
\* at most this many top-level properties differ between state and plan
MaxChanged == 2
\* longest hostname, in characters
MaxLen == 3

(***************************************************************************)
(* Property names, as the source spells them.                              *)
(***************************************************************************)
folderPropName == "folder_id"
networkInterfacesPropName == "network_interface"
secDiskPropName == "secondary_disk"
filesystemPropName == "filesystem"
maintenancePolicyPropName == "maintenance_policy"
maintenanceGracePeriodPropName == "maintenance_grace_period"
resourcesPropName == "resources"
platformIDPropName == "platform_id"
networkAccelerationTypePropName == "network_acceleration_type"
schedulingPolicyName == "scheduling_policy"
placementPolicyPropName == "placement_policy"

\* properties updated one per request, in the order Update handles them
SimpleProps == << "labels", "metadata", "metadata_options", "name",
                  "description", "service_account_id" >>

\* the list Update passes to ensureAllowStoppingForUpdate
properties == << resourcesPropName, platformIDPropName,
                 networkAccelerationTypePropName, schedulingPolicyName,
                 placementPolicyPropName >>

\* sub-fields of placement_policy that preparePlacementPolicyForUpdateRequest reads
PlacementSubs == { "placement_policy.0.placement_group_id",
                   "placement_policy.0.host_affinity_rules",
                   "placement_policy.0.placement_group_partition" }

Range(s) == { s[i] : i \in DOMAIN s }

\* top-level scalar properties whose change is a flag of the diff
FlagProps == Range(SimpleProps) \cup Range(properties)
             \cup { folderPropName, maintenancePolicyPropName,
                    maintenanceGracePeriodPropName }

\* fields of the ARL profile that Update maps to mask paths
ArlFields == { "labels", "name", "description", "advanced_rate_limiter_rule" }

Handlers == { "ComputeCreate", "ComputeRead", "ComputeUpdate", "ComputeDelete",
              "ArlCreate", "ArlUpdate", "ArlDelete" }

IsCompute(h) ==
    h \in { "ComputeCreate", "ComputeRead", "ComputeUpdate", "ComputeDelete" }

(***************************************************************************)
(* Small input domains.                                                    *)
(***************************************************************************)
NilSpec == [ nil |-> TRUE ]
IsNil(spec) == spec.nil

\* a network_interface block of the configuration
Iface(ix, sub, ip, nat, sgs, v4) ==
    [ index |-> ix, subnet_id |-> sub, ip_address |-> ip, nat |-> nat,
      security_group_ids |-> sgs, ipv4 |-> v4 ]

BaseIface == Iface(0, "s1", "", FALSE, {}, TRUE)

IfaceValues ==
    { BaseIface,
      Iface(0, "s2", "", FALSE, {}, TRUE),
      Iface(0, "s1", "a1", FALSE, {}, TRUE),
      Iface(0, "s1", "", TRUE, {}, TRUE),
      Iface(0, "s1", "", FALSE, {"g1"}, TRUE),
      Iface(0, "s1", "", FALSE, {}, FALSE) }

TwoIfaces == << BaseIface, Iface(1, "s1", "", FALSE, {}, TRUE) >>

OldIfaceLists == { << BaseIface >>, TwoIfaces }
NewIfaceLists == { << v >> : v \in IfaceValues } \cup { TwoIfaces }

DiskIds == { "d1", "d2" }
DiskModes == { "READ_WRITE", "READ_ONLY" }

\* a secondary_disk set: at most one block per disk id; the mode of d1
\* varies
DiskConfigs ==
    { c \in SUBSET [ disk_id : DiskIds, mode : DiskModes ] :
        /\ \A x, y \in c : x.disk_id = y.disk_id => x = y
        /\ \A x \in c : x.disk_id # "d1" => x.mode = "READ_WRITE" }

OldDiskConfigs ==
    { c \in DiskConfigs :
        /\ \E x \in c : x.disk_id = "d1"
        /\ \A x \in c : x.mode = "READ_WRITE" }

FsIds == { "f1" }
FsConfigs ==
    { c \in SUBSET [ filesystem_id : FsIds, mode : DiskModes ] :
        \A x, y \in c : x.filesystem_id = y.filesystem_id => x = y }

MaintenancePolicies == { "", "migrate", "bogus" }

\* every order in which a loop may visit the elements of a set
RECURSIVE Perms(_)
Perms(S) ==
    IF S = {} THEN { << >> }
    ELSE UNION { { << x >> \o p : p \in Perms(S \ {x}) } : x \in S }

RECURSIVE Flatten(_)
Flatten(ss) == IF ss = << >> THEN << >> ELSE Head(ss) \o Flatten(Tail(ss))

(***************************************************************************)
(* Reading the diff.                                                       *)
(***************************************************************************)
\* d.HasChange(key)
HasChange(key) ==
    CASE key = networkInterfacesPropName ->
            diff.network_interface[1] # diff.network_interface[2]
      [] key = secDiskPropName -> diff.secondary_disk[1] # diff.secondary_disk[2]
      [] key = filesystemPropName -> diff.filesystem[1] # diff.filesystem[2]
      [] OTHER -> key \in diff.changed

\* ensureAllowStoppingForUpdate: TRUE when it returns an error
\* (variant that never objects: C1 must fail with it)
ensureAllowStoppingForUpdateBuggy == FALSE
ensureAllowStoppingForUpdate == ~ diff.allow_stopping_for_update

\* expandMaintenancePolicy: the enum value, or "error"
expandMaintenancePolicy ==
    CASE diff.maintenance_policy = "" -> "MAINTENANCE_POLICY_UNSPECIFIED"
      [] diff.maintenance_policy = "unspecified" -> "MAINTENANCE_POLICY_UNSPECIFIED"
      [] diff.maintenance_policy = "restart" -> "RESTART"
      [] diff.maintenance_policy = "migrate" -> "MIGRATE"
      [] OTHER -> "error"

\* mask of the maintenance request
MaintenanceMask ==
    { p \in { maintenancePolicyPropName, maintenanceGracePeriodPropName } :
        HasChange(p) }

\* preparePlacementPolicyForUpdateRequest: the mask paths it returns
PlacementPath(sub) ==
    CASE sub = "placement_policy.0.placement_group_id" ->
            "placement_policy.placement_group_id"
      [] sub = "placement_policy.0.host_affinity_rules" ->
            "placement_policy.host_affinity_rules"
      [] sub = "placement_policy.0.placement_group_partition" ->
            "placement_policy.placement_group_partition"

preparePlacementPolicyForUpdateRequest ==
    { PlacementPath(sub) : sub \in { s \in PlacementSubs : HasChange(s) } }

\* mask of the combined request sent to the stopped instance
\* (variant that leaves platform_id out: C3 must fail with it)
StoppedMaskNoPlatform ==
    (IF HasChange(resourcesPropName) THEN { "resources_spec" } ELSE {})
    \cup (IF HasChange(networkAccelerationTypePropName)
          THEN { "network_settings" } ELSE {})
    \cup (IF HasChange(schedulingPolicyName)
          THEN { "scheduling_policy.preemptible" } ELSE {})
    \cup (IF HasChange(placementPolicyPropName)
          THEN preparePlacementPolicyForUpdateRequest ELSE {})
StoppedMask ==
    (IF HasChange(resourcesPropName) THEN { "resources_spec" } ELSE {})
    \cup (IF HasChange(platformIDPropName) THEN { platformIDPropName } ELSE {})
    \cup (IF HasChange(networkAccelerationTypePropName)
          THEN { "network_settings" } ELSE {})
    \cup (IF HasChange(schedulingPolicyName)
          THEN { "scheduling_policy.preemptible" } ELSE {})
    \cup (IF HasChange(placementPolicyPropName)
          THEN preparePlacementPolicyForUpdateRequest ELSE {})

\* the condition of the second `if` of the stopped phase: a combined request is due
StoppedPropsChanged == \E i \in DOMAIN properties : HasChange(properties[i])

(***************************************************************************)
(* Network interfaces.                                                     *)
(***************************************************************************)
Req(kind, mask, arg) == [ kind |-> kind, mask |-> mask, arg |-> arg ]

\* expandPrimaryV4AddressSpec: nil unless the block asks for IPv4
expandPrimaryV4AddressSpec(iface) ==
    IF iface.ipv4
    THEN [ nil |-> FALSE, Address |-> iface.ip_address,
           OneToOneNatSpec |-> IF iface.nat THEN [ nil |-> FALSE, Address |-> "",
                                                    DnsRecordSpecs |-> << >> ]
                               ELSE NilSpec,
           DnsRecordSpecs |-> << >> ]
    ELSE NilSpec

\* expandPrimaryV6AddressSpec: the inputs configure no IPv6 address
expandPrimaryV6AddressSpec(iface) == NilSpec

dnsSpecChanged(old, new) ==
    \/ Len(old.DnsRecordSpecs) # Len(new.DnsRecordSpecs)
    \/ \E i \in DOMAIN old.DnsRecordSpecs :
          old.DnsRecordSpecs[i] # new.DnsRecordSpecs[i]

natDnsSpecChanged(old, new) ==
    IF IsNil(old) /\ IsNil(new) THEN FALSE
    ELSE IF IsNil(old) \/ IsNil(new) THEN FALSE
    ELSE dnsSpecChanged(old, new)

natAddressSpecChanged(old, new) ==
    IF IsNil(old) /\ IsNil(new) THEN FALSE
    ELSE IF IsNil(old) \/ IsNil(new) THEN TRUE
    ELSE new.Address # "" /\ old.Address # new.Address

needToRestartDueToAddressChange(old, new) ==
    IF IsNil(old) /\ IsNil(new) THEN FALSE
    ELSE IF IsNil(old) \/ IsNil(new) THEN TRUE
    ELSE new.Address # "" /\ old.Address # new.Address

wantChangeAddressSpec(old, new) ==
    IF IsNil(old) /\ IsNil(new) THEN FALSE
    ELSE IF IsNil(old) \/ IsNil(new) THEN TRUE
    ELSE IF new.Address # "" /\ old.Address # new.Address THEN TRUE
    ELSE dnsSpecChanged(old, new)
         \/ natDnsSpecChanged(old.OneToOneNatSpec, new.OneToOneNatSpec)

\* one iteration of getSpecsForUpdateNetworkInterfaces: [paths, stop]
IfaceUpdate(oldIface, newIface) ==
    LET oldV4 == expandPrimaryV4AddressSpec(oldIface)
        newV4 == expandPrimaryV4AddressSpec(newIface)
        oldV6 == expandPrimaryV6AddressSpec(oldIface)
        newV6 == expandPrimaryV6AddressSpec(newIface)
        subnet == oldIface.subnet_id # newIface.subnet_id
        v4 == ~ subnet /\ wantChangeAddressSpec(oldV4, newV4)
        v4stop == v4 /\ needToRestartDueToAddressChange(oldV4, newV4)
        v4dns == v4 /\ ~ v4stop /\ dnsSpecChanged(oldV4, newV4)
        v4nat == v4 /\ ~ v4stop
                 /\ natDnsSpecChanged(oldV4.OneToOneNatSpec, newV4.OneToOneNatSpec)
        v6 == ~ subnet /\ wantChangeAddressSpec(oldV6, newV6)
        v6stop == v6 /\ needToRestartDueToAddressChange(oldV6, newV6)
        sgs == oldIface.security_group_ids # newIface.security_group_ids
    IN  [ paths |->
            (IF subnet THEN { "subnet_id", "primary_v4_address_spec",
                              "primary_v6_address_spec" } ELSE {})
            \cup (IF v4stop THEN { "primary_v4_address_spec" } ELSE {})
            \cup (IF v4dns THEN { "primary_v4_address_spec.dns_record_specs" }
                  ELSE {})
            \cup (IF v4nat
                  THEN { "primary_v4_address_spec.one_to_one_nat_spec.dns_record_specs" }
                  ELSE {})
            \cup (IF v6stop THEN { "primary_v6_address_spec" } ELSE {})
            \cup (IF v6 /\ ~ v6stop
                  THEN { "primary_v6_address_spec.dns_record_specs" } ELSE {})
            \cup (IF sgs THEN { "security_group_ids" } ELSE {}),
          stop |-> subnet \/ v4stop \/ v6stop ]

\* getSpecsForUpdateNetworkInterfaces: [requests, stopInstance]
getSpecsForUpdateNetworkInterfaces(oldList, newList) ==
    LET upd(i) == IfaceUpdate(oldList[i], newList[i])
        one(i) == IF upd(i).paths # {}
                  THEN << Req("UpdateNetworkInterface", upd(i).paths,
                              ToString(i - 1)) >>
                  ELSE << >>
    IN  [ requests |-> Flatten([ i \in DOMAIN oldList |-> one(i) ]),
          stopInstance |-> \E i \in DOMAIN oldList : upd(i).stop ]

\* getSpecsForAddRemoveNatNetworkInterfaces: [add, remove]; an interface
\* without an IPv4 spec makes it return no request at all
RECURSIVE NatSpecs(_, _, _, _, _)
NatSpecs(i, oldList, newList, add, remove) ==
    IF i > Len(oldList) THEN [ add |-> add, remove |-> remove ]
    ELSE LET oldV4 == expandPrimaryV4AddressSpec(oldList[i])
             newV4 == expandPrimaryV4AddressSpec(newList[i])
         IN  IF IsNil(oldV4) \/ IsNil(newV4)
             THEN [ add |-> << >>, remove |-> << >> ]
             ELSE IF natAddressSpecChanged(oldV4.OneToOneNatSpec,
                                           newV4.OneToOneNatSpec)
                  THEN NatSpecs(i + 1, oldList, newList,
                         IF ~ IsNil(newV4.OneToOneNatSpec)
                         THEN Append(add, Req("AddOneToOneNat", {}, ToString(i - 1)))
                         ELSE add,
                         IF ~ IsNil(oldV4.OneToOneNatSpec)
                         THEN Append(remove,
                                     Req("RemoveOneToOneNat", {}, ToString(i - 1)))
                         ELSE remove)
                  ELSE NatSpecs(i + 1, oldList, newList, add, remove)

getSpecsForAddRemoveNatNetworkInterfaces(oldList, newList) ==
    NatSpecs(1, oldList, newList, << >>, << >>)

\* getSpecsForAttachDetachNetworkInterfaces: the attach requests in list
\* order; the detach requests come out of a map, in any order
AttachInterfaceRequests(newList, curIfaces) ==
    Flatten([ i \in DOMAIN newList |->
                IF ToString(newList[i].index) \notin curIfaces
                THEN << Req("AttachNetworkInterface", {},
                            ToString(newList[i].index)) >>
                ELSE << >> ])

DetachInterfaceIndexes(newList, curIfaces) ==
    { ix \in curIfaces :
        \A i \in DOMAIN newList : ToString(newList[i].index) # ix }

(***************************************************************************)
(* Secondary disks and filesystems.                                        *)
(***************************************************************************)
\* diskSpecChanged(currDisk, diskSpec)
diskSpecChanged(currDisk, diskSpec) == currDisk.mode # diskSpec.mode

CurrDiskIds(inst) == { x.disk_id : x \in inst.secondary_disks }
CurrDisk(inst, id) == CHOOSE x \in inst.secondary_disks : x.disk_id = id

\* the disks of the new configuration that Update detaches first: attached
\* with a changed spec
DiskReattach(inst, n) ==
    { x \in n : x.disk_id \in CurrDiskIds(inst)
                /\ diskSpecChanged(CurrDisk(inst, x.disk_id), x) }
\* the disks Update attaches
DiskAttach(inst, n) ==
    { x \in n : x.disk_id \notin CurrDiskIds(inst) } \cup DiskReattach(inst, n)
\* attached disks that are not in the new configuration
\* (variant that takes the disks of the old configuration for the attached
\* ones: C15 must fail with it)
DiskAbsentFromOldConfig(inst, n) ==
    { x.disk_id : x \in { y \in diff.secondary_disk[1] :
                            \A z \in n : z.disk_id # y.disk_id } }
DiskAbsent(inst, n) ==
    { id \in CurrDiskIds(inst) : \A x \in n : x.disk_id # id }

\* the filesystems of the old configuration that are still attached
OldFs(inst, o) == { x \in o : x.filesystem_id \in inst.filesystems }
FsAttach(inst, o, n) == { x \in n : x \notin OldFs(inst, o) }
FsDetach(inst, o, n) == { x \in OldFs(inst, o) : x \notin n }

FilterSeq(s, S) == SelectSeq(s, LAMBDA x : x \in S)

(***************************************************************************)
(* parseHostnameFromFQDN.  A string is a sequence of characters.           *)
(***************************************************************************)
Dot == "."
DotAutoInternal ==
    << ".", "a", "u", "t", "o", ".", "i", "n", "t", "e", "r", "n", "a", "l" >>
DotInternal == << ".", "i", "n", "t", "e", "r", "n", "a", "l" >>
RegionId == << "r", "u" >>
InstanceIdText == << "i", "1" >>

\* strings.Contains(s, ".")
ContainsDot(s) == \E i \in DOMAIN s : s[i] = Dot
\* strings.HasSuffix(s, suffix)
HasSuffix(s, suffix) ==
    /\ Len(s) >= Len(suffix)
    /\ SubSeq(s, Len(s) - Len(suffix) + 1, Len(s)) = suffix
\* strings.Split(s, ".")[0]
FirstLabel(s) ==
    IF ContainsDot(s)
    THEN SubSeq(s, 1, (CHOOSE i \in DOMAIN s :
                          s[i] = Dot /\ \A j \in 1..(i - 1) : s[j] # Dot) - 1)
    ELSE s

parseHostnameFromFQDN(s) ==
    IF ~ ContainsDot(s) THEN [ hostname |-> s \o << Dot >>, err |-> FALSE ]
    ELSE IF HasSuffix(s, DotAutoInternal) THEN [ hostname |-> << >>, err |-> FALSE ]
    ELSE IF HasSuffix(s, DotInternal)
         THEN [ hostname |-> FirstLabel(s), err |-> FALSE ]
         ELSE [ hostname |-> s, err |-> FALSE ]

HostChars == { "h", "x", "." }
RECURSIVE StringsUpTo(_)
StringsUpTo(n) ==
    IF n = 0 THEN { << >> }
    ELSE LET shorter == StringsUpTo(n - 1)
         IN  shorter \cup { Append(s, c) : s \in shorter, c \in HostChars }

\* the FQDN the API reports for a configured hostname (schema description of
\* "hostname"): <id>.auto.internal when unset, else <hostname>.<region_id>.internal
FqdnOf(configured) ==
    IF configured = << >> THEN InstanceIdText \o DotAutoInternal
    ELSE configured \o << Dot >> \o RegionId \o DotInternal

\* the hostnames a user configures: labels joined by single dots
Hostnames ==
    { h \in StringsUpTo(MaxLen) :
        /\ h # << >> => h[1] # Dot /\ h[Len(h)] # Dot
        /\ \A i \in 1..(Len(h) - 1) : ~ (h[i] = Dot /\ h[i + 1] = Dot) }

\* the inputs of Read's hostname derivation: the configured hostname and the
\* FQDN of the remote instance (either the documented form, or a bare text)
FqdnInputs ==
    { [ configured |-> h, text |-> FqdnOf(h), documented |-> TRUE ] :
        h \in Hostnames }
    \cup { [ configured |-> h, text |-> h, documented |-> FALSE ] :
             h \in Hostnames \ { << >> } }

DefaultFqdn == [ configured |-> << >>, text |-> FqdnOf(<< >>), documented |-> TRUE ]

(***************************************************************************)
(* Schema validation of the configuration (ConflictsWith, MaxItems).       *)
(***************************************************************************)
\* boot_disk block: is disk_id set, and how many initialize_params blocks
BootDiskConfigs == [ disk_id : BOOLEAN, initialize_params : 0..2 ]
ValidBootDisk == [ disk_id |-> TRUE, initialize_params |-> 0 ]

\* MaxItems of boot_disk.initialize_params, static_quota and dynamic_quota
MaxItems == 1

\* boot_disk.disk_id and boot_disk.initialize_params name each other in
\* ConflictsWith; nothing requires one of them
BootDiskAccepted(b) ==
    /\ b.initialize_params <= MaxItems
    /\ ~ (b.disk_id /\ b.initialize_params > 0)

\* an advanced_rate_limiter_rule block: how many static_quota and
\* dynamic_quota blocks it holds
RuleConfigs == [ static_quota : 0..2, dynamic_quota : 0..2 ]
RuleLists == { << >> } \cup { << r >> : r \in RuleConfigs }
             \cup { << r, [ static_quota |-> 1, dynamic_quota |-> 0 ] >> :
                      r \in RuleConfigs }

\* both quota blocks are Optional with MaxItems 1 and no ExactlyOneOf
RuleAccepted(r) == r.static_quota <= MaxItems /\ r.dynamic_quota <= MaxItems
RulesAccepted(rules) == \A i \in DOMAIN rules : RuleAccepted(rules[i])

\* expandAdvancedRateLimiterProfileAdvancedRateLimiterRulesSlice: the
\* rule_specifier oneof of each rule of the request; when both blocks are
\* set the oneof keeps one of them
RuleSpecifiers(r) ==
    CASE r.static_quota > 0 /\ r.dynamic_quota > 0 ->
            { "static_quota", "dynamic_quota" }
      [] r.static_quota > 0 -> { "static_quota" }
      [] r.dynamic_quota > 0 -> { "dynamic_quota" }
      [] OTHER -> { "none" }

ExpandedRules(rules) ==
    { s \in [ DOMAIN rules -> { "static_quota", "dynamic_quota", "none" } ] :
        \A i \in DOMAIN rules : s[i] \in RuleSpecifiers(rules[i]) }

(***************************************************************************)
(* Initial states: the framework is about to invoke one handler.           *)
(***************************************************************************)
NoInstance == [ status |-> "NONE", secondary_disks |-> {}, filesystems |-> {},
                network_interfaces |-> {} ]

NoLoc == [ needUpdateInterfacesOnStoppedInstance |-> FALSE,
           addNatRequests |-> << >>, removeNatRequests |-> << >>,
           updateInterfaceRequests |-> << >>, attachInterfaceRequests |-> << >>,
           detachInterfaceRequests |-> << >> ]

\* the subsets of S of at most k elements
RECURSIVE SubsetsUpTo(_, _)
SubsetsUpTo(S, k) ==
    IF k = 0 THEN { {} }
    ELSE LET smaller == SubsetsUpTo(S, k - 1)
         IN  smaller \cup { p \cup { x } : p \in smaller, x \in S }

\* the flag sets of a diff: a changed sub-field makes placement_policy changed;
\* the framework calls Update only with a diff that changes something
ChangedSets ==
    UNION { { top \cup subs :
                subs \in IF placementPolicyPropName \in top
                         THEN SUBSET PlacementSubs ELSE { {} } } :
            top \in SubsetsUpTo(FlagProps, MaxChanged) }

Bit(b) == IF b THEN 1 ELSE 0

\* how many top-level properties a diff changes
ChangeCount(c, ni, sd, fs) ==
    Cardinality(c \cap FlagProps) + Bit(ni[1] # ni[2]) + Bit(sd[1] # sd[2])
    + Bit(fs[1] # fs[2])

\* <<old, new>> values of the three structured properties: the unchanged
\* default, or a changed pair
IfacePairs ==
    { << << BaseIface >>, << BaseIface >> >> }
    \cup { << o, n >> \in OldIfaceLists \X NewIfaceLists : o # n }
DiskPairs ==
    { << {}, {} >> }
    \cup { << o, n >> \in OldDiskConfigs \X DiskConfigs : o # n }
FsPairs ==
    { << {}, {} >> }
    \cup { << o, n >> \in FsConfigs \X FsConfigs :
             o # n /\ \A x \in o : x.mode = "READ_WRITE" }

DefaultDiff ==
    [ changed |-> {}, allow_stopping_for_update |-> FALSE,
      allow_recreate |-> FALSE, maintenance_policy |-> "",
      network_interface |-> << << BaseIface >>, << BaseIface >> >>,
      secondary_disk |-> << {}, {} >>, filesystem |-> << {}, {} >>,
      boot_disk |-> ValidBootDisk, rules |-> << >> ]

\* the remote instance an Update starts from: the old configuration, from
\* which disks or filesystems may have been detached out of band
RemoteFor(df, st, disks, fss) ==
    [ exists |-> TRUE, id |-> "i1", status |-> st, secondary_disks |-> disks,
      filesystems |-> fss,
      network_interfaces |->
          { ToString(df.network_interface[1][i].index) :
              i \in DOMAIN df.network_interface[1] } ]

NoRemote == [ exists |-> FALSE, id |-> "", status |-> "NONE",
              secondary_disks |-> {}, filesystems |-> {},
              network_interfaces |-> {} ]

InitCommon ==
    /\ instance = NoInstance
    /\ loc = NoLoc
    /\ queue = << >>
    /\ stack = << >>
    /\ ret = "none"
    /\ inflight = {}
    /\ log = << >>
    /\ result = "none"
    /\ validated = "none"
    /\ hostname = << >>
    /\ (handler # "ComputeRead" => fqdn = DefaultFqdn)

InitComputeUpdate ==
    /\ handler = "ComputeUpdate"
    /\ \E c \in ChangedSets :
        \E ni \in { p \in IfacePairs :
                      ChangeCount(c, p, << {}, {} >>, << {}, {} >>) <= MaxChanged } :
         \E sd \in { p \in DiskPairs :
                       ChangeCount(c, ni, p, << {}, {} >>) <= MaxChanged } :
          \E fs \in { p \in FsPairs : ChangeCount(c, ni, sd, p) <= MaxChanged } :
            /\ ChangeCount(c, ni, sd, fs) >= 1
            /\ \E a \in BOOLEAN, r \in BOOLEAN, m \in MaintenancePolicies :
                  /\ (r => folderPropName \in c)
                  /\ (m # "" <=> maintenancePolicyPropName \in c)
                  /\ diff = [ DefaultDiff EXCEPT
                                !.changed = c, !.allow_stopping_for_update = a,
                                !.allow_recreate = r, !.maintenance_policy = m,
                                !.network_interface = ni, !.secondary_disk = sd,
                                !.filesystem = fs ]
            /\ \E st \in { "RUNNING", "STOPPED" },
                  disks \in { sd[1] } \cup { sd[1] \ { x } : x \in sd[1] },
                  fss \in SUBSET { x.filesystem_id : x \in fs[1] } :
                  /\ (st = "STOPPED" => folderPropName \in c)
                  /\ remote = RemoteFor([ network_interface |-> ni ], st, disks, fss)
    /\ d = [ id |-> "i1", partial |-> FALSE ]
    /\ pc = "validate"

InitComputeCreate ==
    /\ handler = "ComputeCreate"
    /\ \E b \in BootDiskConfigs, m \in MaintenancePolicies :
          diff = [ DefaultDiff EXCEPT !.boot_disk = b, !.maintenance_policy = m ]
    /\ remote = NoRemote
    /\ d = [ id |-> "", partial |-> FALSE ]
    /\ pc = "validate"

InitComputeDelete ==
    /\ handler = "ComputeDelete"
    /\ diff = DefaultDiff
    /\ remote = RemoteFor(DefaultDiff, "RUNNING", {}, {})
    /\ d = [ id |-> "i1", partial |-> FALSE ]
    /\ pc = "delete"

InitArl ==
    /\ handler \in { "ArlCreate", "ArlUpdate", "ArlDelete" }
    /\ \E c \in SUBSET ArlFields, rules \in RuleLists :
          /\ (handler = "ArlDelete" => c = {} /\ rules = << >>)
          /\ (handler = "ArlCreate" => c = {})
          /\ (handler = "ArlUpdate" => c # {})
          /\ diff = [ DefaultDiff EXCEPT !.changed = c, !.rules = rules ]
    /\ remote = IF handler = "ArlCreate" THEN NoRemote
                ELSE [ NoRemote EXCEPT !.exists = TRUE, !.id = "p1",
                                       !.status = "ACTIVE" ]
    /\ d = [ id |-> IF handler = "ArlCreate" THEN "" ELSE "p1",
             partial |-> FALSE ]
    /\ pc = IF handler = "ArlDelete" THEN "delete" ELSE "validate"

InitComputeRead ==
    /\ handler = "ComputeRead"
    /\ fqdn \in FqdnInputs
    /\ diff = DefaultDiff
    /\ remote = RemoteFor(DefaultDiff, "RUNNING", {}, {})
    /\ d = [ id |-> "i1", partial |-> FALSE ]
    /\ pc = "read"

Init ==
    /\ \/ InitComputeUpdate
       \/ InitComputeCreate
       \/ InitComputeRead
       \/ InitComputeDelete
       \/ InitArl
    /\ InitCommon

(***************************************************************************)
(* The log and the generic request / wait steps.                           *)
(***************************************************************************)
Ev(ev, kind, mask, inst, arg) ==
    [ ev |-> ev, kind |-> kind, mask |-> mask, inst |-> inst, arg |-> arg ]

\* the handler returns err
ReturnError(events) ==
    /\ log' = log \o events
    /\ result' = "error"
    /\ pc' = "done"

\* config.sdk.WrapOperation(<API call>(ctx, req)): the request is sent; if the
\* API accepts it an operation is in flight and the caller goes on to
\* op.Wait, resuming at `next` afterwards; else the caller returns the error
\* (variant that goes on without op.Wait: C7 must fail with it)
WrapOperationNoWait(kind, mask, arg, next) ==
    /\ log' = Append(log, Ev("req", kind, mask, d.id, arg))
    /\ inflight' = inflight \cup { Len(log) + 1 }
    /\ pc' = next
    /\ UNCHANGED << ret, result >>
WrapOperation(kind, mask, arg, next) ==
    \E accepted \in BOOLEAN :
        IF accepted
        THEN /\ log' = Append(log, Ev("req", kind, mask, d.id, arg))
             /\ inflight' = inflight \cup { Len(log) + 1 }
             /\ pc' = "wait"
             /\ ret' = next
             /\ result' = result
        ELSE /\ ReturnError(<< Ev("req", kind, mask, d.id, arg),
                               Ev("fail", kind, {}, d.id, "request") >>)
             /\ UNCHANGED << inflight, ret >>

\* the request op.Wait is waiting on: the last one issued
LastReqIndex ==
    CHOOSE i \in DOMAIN log :
        log[i].ev = "req" /\ \A j \in DOMAIN log : log[j].ev = "req" => j <= i

\* what a completed operation did to the remote object
ApplyOp(req) ==
    IF req.kind \in { "Create", "ArlCreate" }
    THEN [ exists |-> TRUE,
           id |-> IF req.kind = "Create" THEN req.arg ELSE req.arg.id,
           status |-> IF req.kind = "Create" THEN "RUNNING" ELSE "ACTIVE",
           secondary_disks |-> diff.secondary_disk[2],
           filesystems |-> { x.filesystem_id : x \in diff.filesystem[2] },
           network_interfaces |->
               { ToString(diff.network_interface[2][i].index) :
                   i \in DOMAIN diff.network_interface[2] } ]
    ELSE IF ~ remote.exists \/ remote.id # req.inst THEN remote
    ELSE CASE req.kind = "Stop" -> [ remote EXCEPT !.status = "STOPPED" ]
           [] req.kind = "Start" -> [ remote EXCEPT !.status = "RUNNING" ]
           [] req.kind \in { "Delete", "ArlDelete" } ->
                [ remote EXCEPT !.exists = FALSE, !.status = "NONE",
                                !.secondary_disks = {}, !.filesystems = {},
                                !.network_interfaces = {} ]
           [] req.kind = "AttachDisk" ->
                [ remote EXCEPT !.secondary_disks =
                    { x \in @ : x.disk_id # req.arg }
                    \cup { x \in diff.secondary_disk[2] : x.disk_id = req.arg } ]
           [] req.kind = "DetachDisk" ->
                [ remote EXCEPT !.secondary_disks =
                    { x \in @ : x.disk_id # req.arg } ]
           [] req.kind = "AttachFilesystem" ->
                [ remote EXCEPT !.filesystems = @ \cup { req.arg } ]
           [] req.kind = "DetachFilesystem" ->
                [ remote EXCEPT !.filesystems = @ \ { req.arg } ]
           [] req.kind = "AttachNetworkInterface" ->
                [ remote EXCEPT !.network_interfaces = @ \cup { req.arg } ]
           [] req.kind = "DetachNetworkInterface" ->
                [ remote EXCEPT !.network_interfaces = @ \ { req.arg } ]
           [] OTHER -> remote

\* op.Wait(ctx): the operation finishes, or the wait returns an error
\* (variant that goes on after a failed wait: C10 must fail with it)
WaitIgnoringError ==
    /\ pc = "wait"
    /\ LET req == log[LastReqIndex]
       IN  \E ok \in BOOLEAN :
               /\ log' = Append(log, Ev(IF ok THEN "wait" ELSE "fail", req.kind, {},
                                        req.inst, IF ok THEN req.arg ELSE "wait"))
               /\ inflight' = inflight \ { LastReqIndex }
               /\ remote' = IF ok THEN ApplyOp(req) ELSE remote
               /\ pc' = ret
               /\ result' = result
    /\ UNCHANGED << handler, diff, d, instance, loc, queue, stack, ret,
                    validated, fqdn, hostname >>
Wait ==
    /\ pc = "wait"
    /\ LET req == log[LastReqIndex]
       IN  \E ok \in BOOLEAN :
               IF ok
               THEN /\ log' = Append(log, Ev("wait", req.kind, {}, req.inst, req.arg))
                    /\ inflight' = inflight \ { LastReqIndex }
                    /\ remote' = ApplyOp(req)
                    /\ pc' = ret
                    /\ result' = result
               ELSE /\ ReturnError(<< Ev("fail", req.kind, {}, req.inst, "wait") >>)
                    /\ UNCHANGED << inflight, remote >>
    /\ UNCHANGED << handler, diff, d, instance, loc, queue, stack, ret,
                    validated, fqdn, hostname >>

\* a loop over prepared requests: issue the next one, or leave the loop
Drain ==
    /\ pc = "drain"
    /\ IF queue = << >>
       THEN /\ pc' = Head(stack)
            /\ stack' = Tail(stack)
            /\ UNCHANGED << queue, log, inflight, ret, result >>
       ELSE /\ WrapOperation(Head(queue).kind, Head(queue).mask, Head(queue).arg,
                             "drain")
            /\ queue' = Tail(queue)
            /\ stack' = stack
    /\ UNCHANGED << handler, diff, d, remote, instance, loc, validated, fqdn,
                    hostname >>

(***************************************************************************)
(* Schema validation, run by the framework before Create and Update.       *)
(***************************************************************************)
Start(h) ==
    CASE h = "ComputeCreate" -> "create"
      [] h = "ArlCreate" -> "create"
      [] h = "ComputeUpdate" -> "update_get"
      [] h = "ArlUpdate" -> "arl_update"
      [] OTHER -> "delete"

SchemaValidate ==
    /\ pc = "validate"
    /\ LET ok == IF IsCompute(handler) THEN BootDiskAccepted(diff.boot_disk)
                 ELSE RulesAccepted(diff.rules)
       IN  /\ validated' = IF ok THEN "accepted" ELSE "rejected"
           /\ pc' = IF ok THEN Start(handler) ELSE "done"
           /\ result' = IF ok THEN result ELSE "rejected"
    /\ UNCHANGED << handler, diff, d, remote, instance, loc, queue, stack, ret,
                    inflight, log, fqdn, hostname >>

(***************************************************************************)
(* Read, and the error helper it shares with Update and Delete.            *)
(***************************************************************************)
\* handleNotFoundError(err, d, name): a NotFound status removes the resource
\* from the state and is swallowed; any other error is returned
handleNotFoundError(code) ==
    IF code = "NotFound" THEN [ err |-> FALSE, clearId |-> TRUE ]
    ELSE [ err |-> TRUE, clearId |-> FALSE ]

\* outcomes of a call the handlers pass to handleNotFoundError on failure
GetOutcomes == { "ok", "NotFound", "Unavailable" }
\* outcomes of a Read: those of its Get, or a flatten helper fails
ReadOutcomes == GetOutcomes \cup { "FlattenError" }

\* resource...Read: [id, hostname, err] after a Read whose Get ended `outcome`
Read(outcome) ==
    IF outcome = "ok"
    THEN [ id |-> d.id, hostname |-> parseHostnameFromFQDN(fqdn.text).hostname,
           err |-> FALSE ]
    ELSE IF outcome = "FlattenError"
    THEN [ id |-> d.id, hostname |-> hostname, err |-> TRUE ]
    ELSE [ id |-> IF handleNotFoundError(outcome).clearId THEN "" ELSE d.id,
           hostname |-> hostname, err |-> handleNotFoundError(outcome).err ]

ResultOf(err) == IF err THEN "error" ELSE "ok"

(***************************************************************************)
(* resourceYandexComputeInstanceUpdate.                                    *)
(***************************************************************************)
\* a function returns: the error ends the handler, nil resumes the caller
\* (the handler itself when the stack is empty)
Return(err) ==
    IF err THEN /\ result' = "error" /\ pc' = "done" /\ stack' = stack
    ELSE IF stack = << >> THEN /\ result' = "ok" /\ pc' = "done" /\ stack' = stack
    ELSE /\ result' = result /\ pc' = Head(stack) /\ stack' = Tail(stack)

Snapshot(r) ==
    [ status |-> r.status, secondary_disks |-> r.secondary_disks,
      filesystems |-> r.filesystems, network_interfaces |-> r.network_interfaces ]

\* Instance().Get at the start of Update, then d.Partial(true)
UpdateGet ==
    /\ pc = "update_get"
    /\ \E outcome \in GetOutcomes :
          IF outcome = "ok"
          THEN /\ instance' = Snapshot(remote)
               /\ d' = [ d EXCEPT !.partial = TRUE ]
               /\ log' = log \o << Ev("get", "Get", {}, d.id, "ok"),
                                   Ev("partial", "Partial", {}, d.id, "true") >>
               /\ pc' = "update_folder"
               /\ result' = result
          ELSE /\ instance' = instance
               /\ d' = [ d EXCEPT !.id = IF handleNotFoundError(outcome).clearId
                                        THEN "" ELSE @ ]
               /\ log' = Append(log, Ev("get", "Get", {}, d.id, outcome))
               /\ pc' = "done"
               /\ result' = ResultOf(handleNotFoundError(outcome).err)
    /\ UNCHANGED << handler, diff, remote, loc, queue, stack, ret, inflight,
                    validated, fqdn, hostname >>

\* folder_id: move the stopped instance, or delete and create it again
UpdateFolder ==
    /\ pc = "update_folder"
    /\ IF ~ HasChange(folderPropName)
       THEN /\ pc' = SimpleProps[1]
            /\ UNCHANGED << log, inflight, ret, result, stack >>
       ELSE IF ~ diff.allow_recreate
       THEN /\ stack' = stack
            /\ IF ensureAllowStoppingForUpdate
               THEN /\ ReturnError(<< Ev("fail", "ensureAllowStoppingForUpdate",
                                         {}, d.id, folderPropName) >>)
                    /\ UNCHANGED << inflight, ret >>
               ELSE IF instance.status # "STOPPED"
               THEN WrapOperation("Stop", {}, "", "folder_move")
               ELSE /\ pc' = "folder_move"
                    /\ UNCHANGED << log, inflight, ret, result >>
       ELSE /\ stack' = << "create", SimpleProps[1] >> \o stack
            /\ pc' = "delete"
            /\ UNCHANGED << log, inflight, ret, result >>
    /\ UNCHANGED << handler, diff, d, remote, instance, loc, queue, validated,
                    fqdn, hostname >>

UpdateFolderMove ==
    /\ pc = "folder_move"
    /\ WrapOperation("Move", {}, "", "folder_start")
    /\ UNCHANGED << handler, diff, d, remote, instance, loc, queue, stack,
                    validated, fqdn, hostname >>

\* the Start that follows the move
\* (variant that leaves the moved instance stopped: C12 must fail with it)
UpdateFolderStartSkipped ==
    /\ pc = "folder_start"
    /\ pc' = SimpleProps[1]
    /\ UNCHANGED << handler, diff, d, remote, instance, loc, queue, stack, ret,
                    inflight, log, result, validated, fqdn, hostname >>
UpdateFolderStart ==
    /\ pc = "folder_start"
    /\ WrapOperation("Start", {}, "", SimpleProps[1])
    /\ UNCHANGED << handler, diff, d, remote, instance, loc, queue, stack,
                    validated, fqdn, hostname >>

\* where Update goes after the section of simple property p
AfterSimple(p) ==
    LET i == CHOOSE k \in DOMAIN SimpleProps : SimpleProps[k] = p
    IN  IF i < Len(SimpleProps) THEN SimpleProps[i + 1] ELSE "maintenance"

\* labels, metadata, metadata_options, name, description, service_account_id:
\* one UpdateInstanceRequest each, its mask the property alone
UpdateSimpleRequest(p) ==
    IF HasChange(p)
    THEN WrapOperation("UpdateInstance", { p }, "", AfterSimple(p))
    ELSE /\ pc' = AfterSimple(p)
         /\ UNCHANGED << log, inflight, ret, result >>

UpdateSimple ==
    /\ pc \in Range(SimpleProps)
    /\ UpdateSimpleRequest(pc)
    /\ UNCHANGED << handler, diff, d, remote, instance, loc, queue, stack,
                    validated, fqdn, hostname >>

\* maintenance_policy and maintenance_grace_period share one request
UpdateMaintenance ==
    /\ pc = "maintenance"
    /\ IF MaintenanceMask = {}
       THEN /\ pc' = networkInterfacesPropName
            /\ UNCHANGED << log, inflight, ret, result >>
       ELSE IF HasChange(maintenancePolicyPropName)
               /\ expandMaintenancePolicy = "error"
       THEN /\ ReturnError(<< Ev("fail", "expandMaintenancePolicy", {}, d.id,
                                 diff.maintenance_policy) >>)
            /\ UNCHANGED << inflight, ret >>
       ELSE WrapOperation("UpdateInstance", MaintenanceMask, "",
                          networkInterfacesPropName)
    /\ UNCHANGED << handler, diff, d, remote, instance, loc, queue, stack,
                    validated, fqdn, hostname >>

\* network_interface: prepare the requests; send those that need no stop
UpdateNetworkInterfaces ==
    /\ pc = networkInterfacesPropName
    /\ IF ~ HasChange(networkInterfacesPropName)
       THEN /\ pc' = secDiskPropName
            /\ UNCHANGED << loc, queue, stack >>
       ELSE LET oldList == diff.network_interface[1]
                newList == diff.network_interface[2]
            IN  IF Len(oldList) # Len(newList)
                THEN /\ \E det \in Perms(DetachInterfaceIndexes(newList,
                                            instance.network_interfaces)) :
                          loc' = [ NoLoc EXCEPT
                            !.needUpdateInterfacesOnStoppedInstance = TRUE,
                            !.attachInterfaceRequests =
                                AttachInterfaceRequests(newList,
                                    instance.network_interfaces),
                            !.detachInterfaceRequests =
                                [ i \in DOMAIN det |->
                                    Req("DetachNetworkInterface", {}, det[i]) ] ]
                     /\ pc' = secDiskPropName
                     /\ UNCHANGED << queue, stack >>
                ELSE LET upd == getSpecsForUpdateNetworkInterfaces(oldList, newList)
                         nat == getSpecsForAddRemoveNatNetworkInterfaces(oldList,
                                                                         newList)
                         now == nat.remove \o nat.add \o upd.requests
                     IN  /\ loc' = [ NoLoc EXCEPT
                               !.needUpdateInterfacesOnStoppedInstance =
                                   upd.stopInstance,
                               !.addNatRequests = nat.add,
                               !.removeNatRequests = nat.remove,
                               !.updateInterfaceRequests = upd.requests ]
                         /\ IF ~ upd.stopInstance /\ now # << >>
                            THEN /\ queue' = now
                                 /\ stack' = << secDiskPropName >> \o stack
                                 /\ pc' = "drain"
                            ELSE /\ pc' = secDiskPropName
                                 /\ UNCHANGED << queue, stack >>
    /\ UNCHANGED << handler, diff, d, remote, instance, ret, inflight, log,
                    result, validated, fqdn, hostname >>

\* secondary_disk: detach, then attach, against the disks Get reported
UpdateSecondaryDisks ==
    /\ pc = secDiskPropName
    /\ IF ~ HasChange(secDiskPropName)
       THEN /\ pc' = filesystemPropName
            /\ UNCHANGED << queue, stack >>
       ELSE LET n == diff.secondary_disk[2]
            IN  \E ord \in Perms(n), abs \in Perms(DiskAbsent(instance, n)) :
                  LET re == FilterSeq(ord, DiskReattach(instance, n))
                      at == FilterSeq(ord, DiskAttach(instance, n))
                      detach == [ i \in DOMAIN re |->
                                    Req("DetachDisk", {}, re[i].disk_id) ]
                                \o [ i \in DOMAIN abs |->
                                       Req("DetachDisk", {}, abs[i]) ]
                      attach == [ i \in DOMAIN at |->
                                    Req("AttachDisk", {}, at[i].disk_id) ]
                  IN  /\ queue' = detach \o attach
                      /\ stack' = << filesystemPropName >> \o stack
                      /\ pc' = "drain"
    /\ UNCHANGED << handler, diff, d, remote, instance, loc, ret, inflight, log,
                    result, validated, fqdn, hostname >>

\* filesystem: detach the old ones that are gone, attach the new ones
UpdateFilesystems ==
    /\ pc = filesystemPropName
    /\ IF ~ HasChange(filesystemPropName)
       THEN /\ pc' = "stopped"
            /\ UNCHANGED << queue, stack >>
       ELSE LET o == diff.filesystem[1]
                n == diff.filesystem[2]
            IN  \E det \in Perms(FsDetach(instance, o, n)),
                   att \in Perms(FsAttach(instance, o, n)) :
                  /\ queue' = [ i \in DOMAIN det |->
                                  Req("DetachFilesystem", {}, det[i].filesystem_id) ]
                              \o [ i \in DOMAIN att |->
                                     Req("AttachFilesystem", {},
                                         att[i].filesystem_id) ]
                  /\ stack' = << "stopped" >> \o stack
                  /\ pc' = "drain"
    /\ UNCHANGED << handler, diff, d, remote, instance, loc, ret, inflight, log,
                    result, validated, fqdn, hostname >>

\* the stop / update / start phase
needUpdateInterfacesOnStoppedInstance == loc.needUpdateInterfacesOnStoppedInstance

\* the condition of the `if` that opens the stopped phase
NeedsStoppedInstance ==
    \/ HasChange(resourcesPropName)
    \/ HasChange(platformIDPropName)
    \/ HasChange(networkAccelerationTypePropName)
    \/ needUpdateInterfacesOnStoppedInstance
    \/ HasChange(schedulingPolicyName)
    \/ HasChange(placementPolicyPropName)

UpdateStopped ==
    /\ pc = "stopped"
    /\ IF ~ NeedsStoppedInstance
       THEN /\ pc' = "finish"
            /\ UNCHANGED << log, inflight, ret, result >>
       ELSE IF ensureAllowStoppingForUpdate
       THEN /\ ReturnError(<< Ev("fail", "ensureAllowStoppingForUpdate", {}, d.id,
                                 "properties") >>)
            /\ UNCHANGED << inflight, ret >>
       ELSE WrapOperation("Stop", {}, "", "stopped_update")
    /\ UNCHANGED << handler, diff, d, remote, instance, loc, queue, stack,
                    validated, fqdn, hostname >>

\* resources, platform_id, network_settings, scheduling and placement
\* policy in one request
UpdateStoppedInstance ==
    /\ pc = "stopped_update"
    /\ IF StoppedPropsChanged
       THEN WrapOperation("UpdateInstance", StoppedMask, "", "stopped_ifaces")
       ELSE /\ pc' = "stopped_ifaces"
            /\ UNCHANGED << log, inflight, ret, result >>
    /\ UNCHANGED << handler, diff, d, remote, instance, loc, queue, stack,
                    validated, fqdn, hostname >>

\* the interface requests that need the instance stopped
StoppedInterfaceRequests ==
    loc.removeNatRequests \o loc.addNatRequests \o loc.updateInterfaceRequests
    \o loc.attachInterfaceRequests \o loc.detachInterfaceRequests

UpdateStoppedInterfaces ==
    /\ pc = "stopped_ifaces"
    /\ IF needUpdateInterfacesOnStoppedInstance
       THEN /\ queue' = StoppedInterfaceRequests
            /\ stack' = << "stopped_start" >> \o stack
            /\ pc' = "drain"
       ELSE /\ pc' = "stopped_start"
            /\ UNCHANGED << queue, stack >>
    /\ UNCHANGED << handler, diff, d, remote, instance, loc, ret, inflight, log,
                    result, validated, fqdn, hostname >>

\* the Start that ends the stopped phase
\* (variant that leaves the instance stopped: C2 must fail with it)
UpdateStartSkipped ==
    /\ pc' = "finish"
    /\ UNCHANGED << log, inflight, ret, result >>
UpdateStartRequest == WrapOperation("Start", {}, "", "finish")

UpdateStart ==
    /\ pc = "stopped_start"
    /\ UpdateStartRequest
    /\ UNCHANGED << handler, diff, d, remote, instance, loc, queue, stack,
                    validated, fqdn, hostname >>

\* d.Partial(false); return resourceYandexComputeInstanceRead(d, meta)
UpdateFinish ==
    /\ pc = "finish"
    /\ \E outcome \in ReadOutcomes :
          LET r == Read(outcome)
          IN  /\ d' = [ id |-> r.id, partial |-> FALSE ]
              /\ hostname' = r.hostname
              /\ log' = log \o << Ev("partial", "Partial", {}, d.id, "false"),
                                  Ev("read", "Read", {}, d.id, outcome) >>
              /\ result' = ResultOf(r.err)
              /\ pc' = "done"
    /\ UNCHANGED << handler, diff, remote, instance, loc, queue, stack, ret,
                    inflight, validated, fqdn >>

(***************************************************************************)
(* Create, Read and Delete of both resources; Update of the ARL profile.  *)
(***************************************************************************)
\* the ID the API gives the object a create request makes
NewId == IF IsCompute(handler) THEN "i2" ELSE "p1"

CreateKind == IF IsCompute(handler) THEN "Create" ELSE "ArlCreate"

\* prepareCreateInstanceRequest fails on an unknown maintenance_policy
PrepareFails == IsCompute(handler) /\ expandMaintenancePolicy = "error"

CreateRequest ==
    /\ pc = "create"
    /\ IF PrepareFails
       THEN /\ ReturnError(<< Ev("fail", "prepareCreateInstanceRequest", {}, d.id,
                                 diff.maintenance_policy) >>)
            /\ UNCHANGED inflight
       ELSE \E accepted \in BOOLEAN, rules \in ExpandedRules(diff.rules) :
              LET arg == IF IsCompute(handler) THEN NewId
                         ELSE [ id |-> NewId, rules |-> rules ]
                  req == Ev("req", CreateKind, {}, d.id, arg)
              IN  IF accepted
                  THEN /\ log' = Append(log, req)
                       /\ inflight' = inflight \cup { Len(log) + 1 }
                       /\ pc' = "create_meta"
                       /\ result' = result
                  ELSE /\ ReturnError(<< req,
                                         Ev("fail", CreateKind, {}, d.id, "request") >>)
                       /\ UNCHANGED inflight
    /\ UNCHANGED << handler, diff, d, remote, instance, loc, queue, stack, ret,
                    validated, fqdn, hostname >>

\* the ID in the create operation's metadata
\* (variant that keeps the ID d already has: C4 must fail with it)
MetadataIdStale(req) == d.id
MetadataId(req) == IF req.kind = "Create" THEN req.arg ELSE req.arg.id

\* op.Metadata(), the type assertion, d.SetId(md.<...>Id)
CreateMetadata ==
    /\ pc = "create_meta"
    /\ LET req == log[LastReqIndex]
       IN  \E ok \in BOOLEAN :
             IF ok
             THEN /\ d' = [ d EXCEPT !.id = MetadataId(req) ]
                  /\ log' = Append(log, Ev("setid", req.kind, {}, MetadataId(req), ""))
                  /\ pc' = "wait"
                  /\ ret' = "create_read"
                  /\ result' = result
             ELSE /\ ReturnError(<< Ev("fail", req.kind, {}, d.id, "metadata") >>)
                  /\ UNCHANGED << d, ret >>
    /\ UNCHANGED << handler, diff, remote, instance, loc, queue, stack, inflight,
                    validated, fqdn, hostname >>

\* Create's tail: op.Response() (compute instance only), then Read
CreateReadTail ==
    \E response \in BOOLEAN, outcome \in ReadOutcomes :
       IF IsCompute(handler) /\ ~ response
       THEN /\ log' = Append(log, Ev("fail", CreateKind, {}, d.id, "response"))
            /\ Return(TRUE)
            /\ UNCHANGED << d, hostname >>
       ELSE LET r == Read(outcome)
            IN  /\ d' = [ d EXCEPT !.id = r.id ]
                /\ hostname' = r.hostname
                /\ log' = Append(log, Ev("read", "Read", {}, d.id, outcome))
                /\ Return(r.err)

CreateRead ==
    /\ pc = "create_read"
    /\ CreateReadTail
    /\ UNCHANGED << handler, diff, remote, instance, loc, queue, ret, inflight,
                    validated, fqdn >>

\* the Read handler on its own
ReadHandler ==
    /\ pc = "read"
    /\ \E outcome \in ReadOutcomes :
          LET r == Read(outcome)
          IN  /\ d' = [ d EXCEPT !.id = r.id ]
              /\ hostname' = r.hostname
              /\ log' = Append(log, Ev("read", "Read", {}, d.id, outcome))
              /\ Return(r.err)
    /\ UNCHANGED << handler, diff, remote, instance, loc, queue, ret, inflight,
                    validated, fqdn >>

DeleteKind == IF IsCompute(handler) THEN "Delete" ELSE "ArlDelete"

\* the delete request; its error goes through handleNotFoundError
DeleteRequest ==
    /\ pc = "delete"
    /\ \E outcome \in GetOutcomes :
          LET req == Ev("req", DeleteKind, {}, d.id, "")
          IN  IF outcome = "ok"
              THEN /\ log' = Append(log, req)
                   /\ inflight' = inflight \cup { Len(log) + 1 }
                   /\ pc' = "wait"
                   /\ ret' = "delete_response"
                   /\ UNCHANGED << d, result, stack >>
              ELSE /\ log' = log \o << req, Ev("fail", DeleteKind, {}, d.id, outcome) >>
                   /\ d' = [ d EXCEPT !.id = IF handleNotFoundError(outcome).clearId
                                            THEN "" ELSE @ ]
                   /\ Return(handleNotFoundError(outcome).err)
                   /\ UNCHANGED << inflight, ret >>
    /\ UNCHANGED << handler, diff, remote, instance, loc, queue, validated, fqdn,
                    hostname >>

\* Delete's tail: op.Response() (compute instance only), return nil
\* (variant that returns nil whatever op.Response() says: C13 must fail
\* with it)
DeleteResponseIgnored ==
    /\ pc = "delete_response"
    /\ \E response \in BOOLEAN :
          /\ log' = IF IsCompute(handler) /\ ~ response
                    THEN Append(log, Ev("fail", DeleteKind, {}, d.id, "response"))
                    ELSE log
          /\ Return(FALSE)
    /\ UNCHANGED << handler, diff, d, remote, instance, loc, queue, ret, inflight,
                    validated, fqdn, hostname >>
DeleteResponse ==
    /\ pc = "delete_response"
    /\ \E response \in BOOLEAN :
          IF IsCompute(handler) /\ ~ response
          THEN /\ log' = Append(log, Ev("fail", DeleteKind, {}, d.id, "response"))
               /\ Return(TRUE)
          ELSE /\ log' = log
               /\ Return(FALSE)
    /\ UNCHANGED << handler, diff, d, remote, instance, loc, queue, ret, inflight,
                    validated, fqdn, hostname >>

\* ...ProfileUpdateFieldsMap: schema field -> mask path
ArlMaskPath(field) ==
    IF field = "advanced_rate_limiter_rule" THEN "advanced_rate_limiter_rules"
    ELSE field

\* generateFieldMasks(d, fieldsMap)
generateFieldMasks == { ArlMaskPath(f) : f \in { g \in ArlFields : HasChange(g) } }

ArlUpdate ==
    /\ pc = "arl_update"
    /\ \E rules \in ExpandedRules(diff.rules) :
          WrapOperation("ArlUpdate", generateFieldMasks,
                        [ id |-> d.id, rules |-> rules ], "read")
    /\ UNCHANGED << handler, diff, d, remote, instance, loc, queue, stack,
                    validated, fqdn, hostname >>

Next ==
    \/ SchemaValidate
    \/ UpdateGet
    \/ UpdateFolder
    \/ UpdateFolderMove
    \/ UpdateFolderStart
    \/ UpdateSimple
    \/ UpdateMaintenance
    \/ UpdateNetworkInterfaces
    \/ UpdateSecondaryDisks
    \/ UpdateFilesystems
    \/ UpdateStopped
    \/ UpdateStoppedInstance
    \/ UpdateStoppedInterfaces
    \/ UpdateStart
    \/ UpdateFinish
    \/ Drain
    \/ Wait
    \/ CreateRequest
    \/ CreateMetadata
    \/ CreateRead
    \/ ReadHandler
    \/ DeleteRequest
    \/ DeleteResponse
    \/ ArlUpdate

Spec == Init /\ [][Next]_vars

(***************************************************************************)
(* Reading the log.                                                        *)
(***************************************************************************)
Last(s) == s[Len(s)]

IsReq(i, kind) == log[i].ev = "req" /\ log[i].kind = kind

ReqIndexes == { i \in DOMAIN log : log[i].ev = "req" }

\* Update's Get at its start found the instance
GetSucceeded == \E i \in DOMAIN log : log[i].ev = "get" /\ log[i].arg = "ok"

Finished(h, res) == handler \in h /\ pc = "done" /\ result = res

InterfaceKinds == { "UpdateNetworkInterface", "AddOneToOneNat", "RemoveOneToOneNat",
                    "AttachNetworkInterface", "DetachNetworkInterface" }

\* the UpdateInstance request of the stopped phase: its mask names none of
\* the properties that are updated on the running instance
IsCombinedUpdate(e) ==
    /\ e.ev = "req"
    /\ e.kind = "UpdateInstance"
    /\ e.mask \cap (Range(SimpleProps) \cup { maintenancePolicyPropName,
                                             maintenanceGracePeriodPropName }) = {}

\* an interface request of the stopped phase
IsStoppedInterfaceRequest(e) ==
    /\ e.ev = "req"
    /\ e.kind \in InterfaceKinds
    /\ needUpdateInterfacesOnStoppedInstance

\* the requests of the log after position j, in order
RequestsAfter(j) ==
    LET tail == SelectSeq(SubSeq(log, j + 1, Len(log)), LAMBDA e : e.ev = "req")
    IN  [ i \in DOMAIN tail |-> Req(tail[i].kind, tail[i].mask, tail[i].arg) ]

LastStopIndex ==
    CHOOSE j \in DOMAIN log :
        IsReq(j, "Stop") /\ \A k \in DOMAIN log : IsReq(k, "Stop") => k <= j

C2_StopUpdateStartOrder ==
    handler = "ComputeUpdate" =>
        /\ \A i \in DOMAIN log :
              (IsCombinedUpdate(log[i]) \/ IsStoppedInterfaceRequest(log[i])) =>
                  \E j \in 1..(i - 1) :
                      /\ log[j].ev = "wait"
                      /\ log[j].kind = "Stop"
                      /\ \A k \in (j + 1)..(i - 1) :
                            ~ IsReq(k, "Start") /\ ~ IsReq(k, "Stop")
        /\ \A i \in DOMAIN log :
              IsCombinedUpdate(log[i]) =>
                  \A k \in DOMAIN log : IsStoppedInterfaceRequest(log[k]) => i < k
        /\ (pc = "done" /\ result = "ok" /\ GetSucceeded /\ NeedsStoppedInstance) =>
              /\ \E j \in DOMAIN log : IsReq(j, "Stop")
              /\ log[LastStopIndex + 1].ev = "wait"
              /\ RequestsAfter(LastStopIndex) =
                    (IF StoppedPropsChanged
                     THEN << Req("UpdateInstance", StoppedMask, "") >> ELSE << >>)
                    \o (IF needUpdateInterfacesOnStoppedInstance
                        THEN StoppedInterfaceRequests ELSE << >>)
                    \o << Req("Start", {}, "") >>

\* a successful Update that sent both a combined UpdateInstance and an
\* interface request to the stopped instance
C2_Witness ==
    /\ Finished({ "ComputeUpdate" }, "ok")
    /\ StoppedPropsChanged
    /\ needUpdateInterfacesOnStoppedInstance
    /\ \E i \in DOMAIN log : IsCombinedUpdate(log[i])
    /\ \E i \in DOMAIN log : IsStoppedInterfaceRequest(log[i])
    /\ IsReq(Len(log) - 3, "Start")

(***************************************************************************)
(* C3                                                                      *)
(***************************************************************************)
StoppedPaths ==
    { "resources_spec", "platform_id", "network_settings",
      "scheduling_policy.preemptible", "placement_policy.placement_group_id",
      "placement_policy.host_affinity_rules",
      "placement_policy.placement_group_partition" }

CreatedId(e) == IF e.kind = "Create" THEN e.arg ELSE e.arg.id

C5_SecondaryDiskNeedsAllowStopping ==
    (handler = "ComputeUpdate" /\ ~ diff.allow_stopping_for_update
        /\ HasChange(secDiskPropName)) =>
        \A i \in DOMAIN log :
            ~ IsReq(i, "AttachDisk") /\ ~ IsReq(i, "DetachDisk")

(***************************************************************************)
(* C6                                                                      *)
(***************************************************************************)
\* C6: after a Read of a compute instance whose FQDN has one of the two
\* documented forms, the hostname attribute equals the configured hostname
\* (empty for <id>.auto.internal), for every hostname.
C6_HostnameFromFQDN ==
    (Finished({ "ComputeRead" }, "ok") /\ Last(log).arg = "ok"
        /\ fqdn.documented) => hostname = fqdn.configured

(***************************************************************************)
(* C7                                                                      *)
(***************************************************************************)
\* C7: within one Create, Update or Delete at most one operation is in
\* flight at any time: what follows a request in the log is the wait on its
\* operation (for a create, SetId from the operation's metadata and then the
\* wait) or the failure that ends the call, never another request; and a
\* handler that returned success left no operation in flight.
C7_OneOperationInFlight ==
    /\ Cardinality(inflight) <= 1
    /\ \A i \in DOMAIN log :
          (log[i].ev = "req" /\ i < Len(log)) =>
              \/ log[i + 1].ev \in { "wait", "fail" } /\ log[i + 1].kind = log[i].kind
              \/ /\ log[i + 1].ev = "setid"
                 /\ i + 1 < Len(log) =>
                       /\ log[i + 2].ev \in { "wait", "fail" }
                       /\ log[i + 2].kind = log[i].kind
    /\ (pc = "done" /\ result = "ok") => inflight = {}

\* a successful Update that issued at least three requests
C7_Witness ==
    /\ Finished({ "ComputeUpdate" }, "ok")
    /\ Cardinality(ReqIndexes) >= 3
    /\ inflight = {}

C9_BootDiskExactlyOne ==
    (handler = "ComputeCreate" /\ validated = "accepted") =>
        (diff.boot_disk.disk_id # (diff.boot_disk.initialize_params > 0))

(***************************************************************************)
(* C10                                                                     *)
(***************************************************************************)
\* how a mutating request or its operation fails
ApiFailures == { "request", "wait", "metadata", "response", "Unavailable" }

IsApiFailure(e) == e.ev = "fail" /\ e.arg \in ApiFailures

PartialFalseReached ==
    \E i \in DOMAIN log : log[i].ev = "partial" /\ log[i].arg = "false"

FailedForAllowStopping ==
    /\ Finished({ "ComputeUpdate" }, "error")
    /\ Last(log).ev = "fail"
    /\ Last(log).kind = "ensureAllowStoppingForUpdate"

\* C11: when a compute-instance Update fails because
\* allow_stopping_for_update is not set, no request has been sent to the API
\* during that Update.
C11_NoRequestBeforeAllowStoppingError ==
    FailedForAllowStopping => ReqIndexes = {}

(***************************************************************************)
(* C12                                                                     *)
(***************************************************************************)
\* Update took the move branch of the folder_id section
FolderMove ==
    /\ handler = "ComputeUpdate"
    /\ GetSucceeded
    /\ "folder_id" \in diff.changed
    /\ ~ diff.allow_recreate

\* the requests of the move, given the status Get reported
MoveRequestKinds ==
    (IF instance.status # "STOPPED" THEN << "Stop" >> ELSE << >>)
    \o << "Move", "Start" >>

\* C12: when folder_id changed and allow_recreate is false, Update first
\* requires allow_stopping_for_update, failing before any request otherwise;
\* its first requests are Stop (only if the status read at the start of
\* Update is not STOPPED), then Move, then Start, whatever that status was;
\* once that Start completed the instance is running, until a later Stop
\* completes.
C12_MoveChoreography ==
    FolderMove =>
        /\ ~ diff.allow_stopping_for_update =>
              /\ ReqIndexes = {}
              /\ pc = "done" => result = "error"
        /\ \A i \in DOMAIN RequestsAfter(0) :
              i <= Len(MoveRequestKinds) =>
                  RequestsAfter(0)[i].kind = MoveRequestKinds[i]
        /\ (pc = "done" /\ result = "ok") =>
              Len(RequestsAfter(0)) >= Len(MoveRequestKinds)
        /\ (\E i \in DOMAIN log :
                /\ log[i].ev = "wait"
                /\ log[i].kind = "Start"
                /\ \A k \in (i + 1)..Len(log) :
                      ~ (log[k].ev = "wait" /\ log[k].kind = "Stop"))
              => remote.status = "RUNNING"

\* a successful Update that moved an instance found stopped: no Stop before
\* the Move, and the instance runs afterwards
C12_Witness ==
    /\ Finished({ "ComputeUpdate" }, "ok")
    /\ FolderMove
    /\ instance.status = "STOPPED"
    /\ IsReq(3, "Move")
    /\ IsReq(5, "Start")
    /\ remote.status = "RUNNING"

(***************************************************************************)
(* C13                                                                     *)
(***************************************************************************)
\* Update took the recreate branch of the folder_id section
Recreate ==
    /\ handler = "ComputeUpdate"
    /\ GetSucceeded
    /\ "folder_id" \in diff.changed
    /\ diff.allow_recreate

AttachedTo(inst) ==
    IF remote.exists /\ remote.id = inst THEN CurrDiskIds(remote) ELSE {}

\* C14: every AttachDisk request Update issues targets a disk that is not
\* attached to the instance the resource ID names at that time, and every
\* DetachDisk request a disk that is attached to it, also after the instance
\* was recreated earlier in the same Update.  (The remote object changes only
\* through Update's own operations, and none of them has failed.)
C14_DiskRequestsMatchAttachment ==
    (handler = "ComputeUpdate" /\ pc = "wait"
     /\ \A i \in DOMAIN log : log[i].ev # "fail") =>
        LET req == log[LastReqIndex]
        IN  /\ req.kind = "AttachDisk" => req.arg \notin AttachedTo(req.inst)
            /\ req.kind = "DetachDisk" => req.arg \in AttachedTo(req.inst)

(***************************************************************************)
(* C15                                                                     *)
(***************************************************************************)
NewDisks == diff.secondary_disk[2]
OldDisks == diff.secondary_disk[1]

\* a disk attached to the instance Get reported, whose block in the new
\* configuration has a changed spec
SpecChanged(id) ==
    /\ id \in CurrDiskIds(instance)
    /\ \E x \in NewDisks :
          x.disk_id = id /\ diskSpecChanged(CurrDisk(instance, id), x)

ExpectedDetach ==
    { id \in CurrDiskIds(instance) :
        id \notin CurrDiskIds([ secondary_disks |-> NewDisks ]) \/ SpecChanged(id) }
ExpectedAttach ==
    { id \in CurrDiskIds([ secondary_disks |-> NewDisks ]) :
        id \notin CurrDiskIds(instance) \/ SpecChanged(id) }

DiskRequested(kind) == { log[i].arg : i \in { j \in DOMAIN log : IsReq(j, kind) } }

\* C15: when secondary_disk changed, Update detaches exactly the disks that
\* are attached to the instance Get reported and are absent from the new
\* configuration or have a changed spec in it, and attaches exactly the
\* disks of the new configuration that are not attached or have a changed
\* spec, one request each; an attached disk with an unchanged spec and a
\* disk of the old configuration that is no longer attached get no request,
\* and without a change of secondary_disk there is no disk request.
C15_DisksAgainstRemote ==
    (handler = "ComputeUpdate" /\ GetSucceeded) =>
        /\ \A i \in DOMAIN log :
              /\ IsReq(i, "DetachDisk") =>
                    /\ HasChange(secDiskPropName)
                    /\ log[i].arg \in ExpectedDetach
                    /\ \A k \in 1..(i - 1) :
                          ~ (IsReq(k, "DetachDisk") /\ log[k].arg = log[i].arg)
              /\ IsReq(i, "AttachDisk") =>
                    /\ HasChange(secDiskPropName)
                    /\ log[i].arg \in ExpectedAttach
                    /\ \A k \in 1..(i - 1) :
                          ~ (IsReq(k, "AttachDisk") /\ log[k].arg = log[i].arg)
        /\ (pc = "done" /\ result = "ok" /\ HasChange(secDiskPropName)) =>
              /\ DiskRequested("DetachDisk") = ExpectedDetach
              /\ DiskRequested("AttachDisk") = ExpectedAttach

\* a finished Update where a disk of the old configuration was no longer
\* attached and is not in the new one (no request for it), and an attached
\* disk with a changed spec was detached and attached again
C15_Witness ==
    /\ Finished({ "ComputeUpdate" }, "ok")
    /\ GetSucceeded
    /\ \E x \in OldDisks :
          /\ x.disk_id \notin CurrDiskIds(instance)
          /\ x.disk_id \notin CurrDiskIds([ secondary_disks |-> NewDisks ])
          /\ x.disk_id \notin DiskRequested("DetachDisk")
    /\ \E id \in DiskRequested("DetachDisk") :
          SpecChanged(id) /\ id \in DiskRequested("AttachDisk")

====
